---------------------------- MODULE Spec2Model ----------------------------
(***************************************************************************)
(* Model of the serial joystick host tool (src/src/App.jsx): the command   *)
(* encoders (calibration, LED test, upgrade trigger), the protocol frame   *)
(* builder and the chunked firmware upload driven by startUpgrade.         *)
(*                                                                         *)
(* React state is modelled by one variable per useState cell.  An async    *)
(* handler is cut at its awaits: one action per run-to-completion block.   *)
(***************************************************************************)
EXTENDS Integers, Sequences, FiniteSets, TLC

VARIABLES
    isConnected,         \* useState(false), App.jsx:18
    calibrationConfig,   \* useState({...}), App.jsx:30
    calibrationCommand,  \* useState(''), App.jsx:37: the hex text shown
    calFrame,            \* last value returned by generateCalibrationCommand
    ledTestStatuses,     \* useState(Array(20).fill(false)), App.jsx:40
    ledTestCommand,      \* useState(''), App.jsx:41: the hex text shown
    ledToggles,          \* number of LED clicks so far (bounded)
    sentCommand,         \* last `command` handed to invoke('send_calibration_command')
                         \* by the calibration, LED and trigger handlers
    frameIn,             \* arguments of a direct call of buildProtocolFrame
    frameOut,            \* its result (<<>> before the call)
    bytesIn,             \* the bytes handed to a direct call of the checksum
                         \* and CRC computations
    sum16Out,            \* <<calculateChecksum(bytesIn)>>, <<>> before the call
    sum8Out,             \* <<the 8-bit sum of App.jsx:149 over bytesIn>>
    crc32Out,            \* <<calculateCRC32(bytesIn)>>
    firmwareFile,        \* useState(null), App.jsx:44
    upgradeStatus,       \* useState('idle'), App.jsx:46
    upgradeProgress,     \* useState(0), App.jsx:47
    upgradeMessage,      \* useState(''), App.jsx:48
    pendingTriggers,     \* sendUpgradeCommand calls awaiting their invoke
    runs,                \* the calls of startUpgrade: locals and position
    useCRC,              \* const useCRC of startUpgrade, App.jsx:847: false
    errorToast,          \* key of the last message.error a handler showed
                         \* before returning at a guard ("" before any)
    triggersSent,        \* trigger commands handed to the backend so far
                         \* in the source as it stands, "can be set to true
                         \* as needed"; no operation changes it
    rawData,             \* parsedData.raw_data, App.jsx:51-58
    isRefreshing,        \* useState(false), App.jsx:59
    refreshErrorCount,   \* useState(0), App.jsx:61
    timerErrorCount,     \* refreshErrorCount as seen by the refreshData that
                         \* setInterval calls: the value of the render whose
                         \* effect started the interval
    refreshErrorsShown,  \* message.error calls made by refreshData since the
                         \* last successful read or connection change
    pendingPolls         \* the calls of refreshData awaiting their invoke:
                         \* for each, the refreshErrorCount it closed over

calVars == <<calibrationConfig, calibrationCommand, calFrame>>
ledVars == <<ledTestStatuses, ledTestCommand, ledToggles>>
frameVars == <<frameIn, frameOut, bytesIn, sum16Out, sum8Out, crc32Out>>
upgVars == <<firmwareFile, upgradeStatus, upgradeProgress, upgradeMessage,
             pendingTriggers, runs>>

pollVars == <<rawData, isRefreshing, refreshErrorCount, timerErrorCount,
              refreshErrorsShown, pendingPolls>>

vars == <<isConnected, calVars, ledVars, sentCommand, frameVars, upgVars,
          useCRC, errorToast, triggersSent, pollVars>>

---------------------------------------------------------------------------
(* Bounds of the model.                                                    *)

\* LED clicks explored in one behaviour.
MaxLedToggles == 3

\* Calls of startUpgrade that may be in progress at once.
MaxRuns == 2

\* Calls of sendUpgradeCommand that may await their invoke at once while an
\* upload of several chunks is explored.
MaxPendingTriggers == 1

\* Calls of sendUpgradeCommand that may await their invoke at once where the
\* trigger button is explored.
MaxTriggerClicks == 2

\* Calls of refreshData that may await their invoke at once.
MaxPendingPolls == 2

\* Failed refreshes in a row, and error messages of refreshData, explored in
\* one behaviour.
MaxRefreshErrors == 6

---------------------------------------------------------------------------
(* Number helpers: JavaScript's bit operators on the values the code uses. *)

\* x & 0xFF on a 32-bit integer: the low 8 bits (two's complement).
And0xFF(x) == x % 256

\* x & 0xFFFF.
And0xFFFF(x) == x % 65536

\* Storing a number into a Uint8Array element keeps it modulo 256.
ToUint8(x) == x % 256

Min(a, b) == IF a < b THEN a ELSE b

\* Plain arithmetic sum of a sequence of numbers (Array.prototype.reduce
\* with (acc, val) => acc + val, 0), from first to last.  The loop runs in
\* blocks of 32 elements to keep the evaluation shallow; the order of the
\* additions is that of the loop.
RECURSIVE SumRange(_, _, _, _)
SumRange(acc, s, lo, hi) ==
    IF lo > hi THEN acc
    ELSE LET next == acc + s[lo]
         IN  \* the test makes the evaluator compute `next` here
             IF next = next THEN SumRange(next, s, lo + 1, hi) ELSE acc

RECURSIVE SumFrom(_, _, _)
SumFrom(acc, s, lo) ==
    IF lo > Len(s) THEN acc
    ELSE LET next == SumRange(acc, s, lo, Min(lo + 31, Len(s)))
         IN  IF next = next THEN SumFrom(next, s, lo + 32) ELSE acc

reduceSum(s) == SumFrom(0, s, 1)

---------------------------------------------------------------------------
(* Number.prototype.toString(16).padStart(2, '0').toUpperCase()            *)

HexDigit(d) ==
    CASE d = 0 -> "0" [] d = 1 -> "1" [] d = 2 -> "2" [] d = 3 -> "3"
      [] d = 4 -> "4" [] d = 5 -> "5" [] d = 6 -> "6" [] d = 7 -> "7"
      [] d = 8 -> "8" [] d = 9 -> "9" [] d = 10 -> "A" [] d = 11 -> "B"
      [] d = 12 -> "C" [] d = 13 -> "D" [] d = 14 -> "E" [] d = 15 -> "F"

\* The digits of a natural number in base 16, no padding.
RECURSIVE HexNat(_)
HexNat(n) == IF n < 16 THEN HexDigit(n) ELSE HexNat(n \div 16) \o HexDigit(n % 16)

\* toString(16) writes a negative number as "-" and the magnitude; padStart
\* pads to two characters in all.
toHex2(n) ==
    IF n < 0 THEN "-" \o HexNat(-n)
    ELSE IF n < 16 THEN "0" \o HexDigit(n)
    ELSE HexNat(n)

\* bytes.map(toHex2).join(' ')
RECURSIVE JoinHexUpTo(_, _)
JoinHexUpTo(s, n) ==
    IF n = 0 THEN ""
    ELSE IF n = 1 THEN toHex2(s[1])
    ELSE JoinHexUpTo(s, n - 1) \o " " \o toHex2(s[n])

joinHex(s) == JoinHexUpTo(s, Len(s))

---------------------------------------------------------------------------
(* parseInt(text) || 1 of the channel number field (App.jsx:245).  The     *)
(* text is a sequence of one-character strings.                            *)

Digits == {"0", "1", "2", "3", "4", "5", "6", "7", "8", "9"}

DigitValue(c) ==
    CASE c = "0" -> 0 [] c = "1" -> 1 [] c = "2" -> 2 [] c = "3" -> 3
      [] c = "4" -> 4 [] c = "5" -> 5 [] c = "6" -> 6 [] c = "7" -> 7
      [] c = "8" -> 8 [] c = "9" -> 9

\* The value of the longest run of digits of s that starts at position i,
\* given the value acc read so far.
RECURSIVE ReadDigits(_, _, _)
ReadDigits(s, i, acc) ==
    IF i > Len(s) \/ s[i] \notin Digits THEN acc
    ELSE ReadDigits(s, i + 1, acc * 10 + DigitValue(s[i]))

\* A parse result is <<n>> for the number n and <<>> for NaN.
NaN == <<>>

\* parseInt: an optional sign, then decimal digits up to the first other
\* character; NaN when no digit follows the sign.
parseInt(s) ==
    LET neg == Len(s) > 0 /\ s[1] = "-"
        start == IF Len(s) > 0 /\ s[1] \in {"-", "+"} THEN 2 ELSE 1
    IN  IF start > Len(s) \/ s[start] \notin Digits THEN NaN
        ELSE IF neg THEN << 0 - ReadDigits(s, start, 0) >>
        ELSE << ReadDigits(s, start, 0) >>

\* x || 1: NaN and 0 are falsy.
OrOne(x) == IF x = NaN \/ x[1] = 0 THEN 1 ELSE x[1]

\* What the user can leave in the channel field (type="number": min and max
\* are not enforced on typed text).
ChannelTexts ==
    { <<>>, <<"0">>, <<"1">>, <<"1", "0">>, <<"1", "1">>,
      <<"2", "5", "5">>, <<"-", "2">>, <<"2", ".", "7">> }

---------------------------------------------------------------------------
(* Device calibration (App.jsx:134-170, 222-325).                          *)

\* The frame of generateCalibrationCommand for a config: header, data, the
\* fixed 0x00 and the checksum of the first 8 bytes.
CalibrationFrameSumAll(cfg) ==
    LET frame == << 129, 16, 5,
                    IF cfg.channelEnabled THEN 1 ELSE 0,
                    cfg.channelNumber, cfg.calibrationMode,
                    cfg.calibrationType, cfg.deviceType >>
        crc == reduceSum(frame)
    IN  frame \o <<0, crc>>

CalibrationFrameSumData(cfg) ==
    LET frame == << 129, 16, 5,
                    IF cfg.channelEnabled THEN 1 ELSE 0,
                    cfg.channelNumber, cfg.calibrationMode,
                    cfg.calibrationType, cfg.deviceType >>
        crc == And0xFF(reduceSum(SubSeq(frame, 4, 8)))
    IN  frame \o <<0, crc>>

CalibrationFrame(cfg) ==
    LET frame == << 129, 16, 5,
                    IF cfg.channelEnabled THEN 1 ELSE 0,
                    cfg.channelNumber, cfg.calibrationMode,
                    cfg.calibrationType, cfg.deviceType >>
        crc == And0xFF(reduceSum(frame))
    IN  frame \o <<0, crc>>

InitialCalibrationConfig ==
    [ channelEnabled |-> TRUE, channelNumber |-> 1, calibrationMode |-> 2,
      calibrationType |-> 2, deviceType |-> 1 ]

\* A change of calibrationConfig re-renders and the effect at App.jsx:544
\* runs generateCalibrationCommand on the new config.
SetCalibrationConfig(cfg) ==
    /\ cfg # calibrationConfig
    /\ calibrationConfig' = cfg
    /\ calFrame' = CalibrationFrame(cfg)
    /\ calibrationCommand' = joinHex(CalibrationFrame(cfg))
    /\ UNCHANGED <<useCRC, errorToast, triggersSent, pollVars, isConnected, ledVars, sentCommand, frameVars, upgVars>>

ChangeChannelEnabled ==
    \E b \in BOOLEAN :
        SetCalibrationConfig([calibrationConfig EXCEPT !.channelEnabled = b])

ChangeChannelNumber ==
    \E text \in ChannelTexts :
        SetCalibrationConfig(
            [calibrationConfig EXCEPT !.channelNumber = OrOne(parseInt(text))])

ChangeCalibrationMode ==
    \E m \in {1, 2} :
        SetCalibrationConfig([calibrationConfig EXCEPT !.calibrationMode = m])

ChangeCalibrationType ==
    \E ty \in {1, 2} :
        SetCalibrationConfig([calibrationConfig EXCEPT !.calibrationType = ty])

ChangeDeviceType ==
    \E d \in {1, 2, 3} :
        SetCalibrationConfig([calibrationConfig EXCEPT !.deviceType = d])

\* The "start calibration" button (disabled while not connected): the frame
\* is generated again and handed to the backend.
sendCalibrationCommand ==
    /\ isConnected
    /\ calFrame' = CalibrationFrame(calibrationConfig)
    /\ calibrationCommand' = joinHex(CalibrationFrame(calibrationConfig))
    /\ sentCommand' = CalibrationFrame(calibrationConfig)
    /\ UNCHANGED <<useCRC, errorToast, triggersSent, pollVars, isConnected, calibrationConfig, ledVars, frameVars, upgVars>>

---------------------------------------------------------------------------
(* Serial connection (App.jsx:470-501), successful outcomes.               *)

\* The effect on [isConnected, refreshInterval] (App.jsx:526-541) runs after
\* the render that follows: it resets the error count and, when connected,
\* starts the interval with that render's refreshData.
connectMatrix ==
    /\ ~isConnected
    /\ isConnected' = TRUE
    /\ timerErrorCount' = refreshErrorCount
    /\ refreshErrorCount' = 0
    /\ refreshErrorsShown' = 0
    /\ UNCHANGED <<useCRC, errorToast, triggersSent, calVars, ledVars, sentCommand, frameVars, upgVars,
                   rawData, isRefreshing, pendingPolls>>

disconnectMatrix ==
    /\ isConnected
    /\ isConnected' = FALSE
    /\ refreshErrorCount' = 0
    /\ refreshErrorsShown' = 0
    /\ UNCHANGED <<useCRC, errorToast, triggersSent, calVars, ledVars, sentCommand, frameVars, upgVars,
                   rawData, isRefreshing, timerErrorCount, pendingPolls>>

---------------------------------------------------------------------------
(* Telemetry refresh (App.jsx:503-541, 1212-1219).                         *)

\* refreshData up to its await, in a render where refreshErrorCount was
\* `captured`: the read is handed to the backend.
refreshData(connected, captured) ==
    /\ IF ~connected
       THEN UNCHANGED <<isRefreshing, pendingPolls>>
       ELSE /\ isRefreshing' = TRUE
            /\ pendingPolls' = Append(pendingPolls, captured)
    /\ UNCHANGED <<isConnected, useCRC, errorToast, triggersSent, calVars, ledVars, sentCommand,
                   frameVars, upgVars, rawData, refreshErrorCount,
                   timerErrorCount, refreshErrorsShown>>

\* The interval fires.  It exists while isConnected is true, and calls the
\* refreshData of the render that started it, in which isConnected is true.
timerTick ==
    /\ isConnected
    /\ Len(pendingPolls) < MaxPendingPolls
    /\ refreshData(TRUE, timerErrorCount)

\* The refresh button: disabled while not connected, inert while loading.
clickRefresh ==
    /\ isConnected
    /\ ~isRefreshing
    /\ Len(pendingPolls) < MaxPendingPolls
    /\ refreshData(isConnected, refreshErrorCount)

\* Buffers the backend can return as raw_data: `len` bytes, 0xAA at the
\* offsets of aaAt, and bytes other than 0xAA at the 24-byte boundaries
\* elsewhere.
Buffer(len, aaAt) ==
    [i \in 1 .. len |-> IF (i - 1) \in aaAt THEN 170 ELSE ((i - 1) * 3 + 1) % 256]

OneFrameBuffers == { Buffer(24, {0}) }

TelemetryBuffers ==
    { Buffer(0, {}), Buffer(23, {0}), Buffer(24, {0}), Buffer(24, {5}),
      Buffer(47, {0, 24}), Buffer(48, {0, 24}), Buffer(50, {0, 24}),
      Buffer(50, {0, 24, 48}), Buffer(72, {24, 30, 48}),
      Buffer(96, {0, 24, 48, 72}), Buffer(120, {0, 48, 72, 96}),
      Buffer(121, {0, 24, 48, 72, 96, 120}) }

\* pendingPolls without its i-th element.
WithoutPoll(i) ==
    SubSeq(pendingPolls, 1, i - 1) \o SubSeq(pendingPolls, i + 1, Len(pendingPolls))

\* The invoke of a read resolves with the parsed data.
refreshDataResolved(buffers) ==
    /\ \E i \in DOMAIN pendingPolls : pendingPolls' = WithoutPoll(i)
    /\ \E data \in buffers : rawData' = data
    /\ refreshErrorCount' = 0
    /\ refreshErrorsShown' = 0
    /\ isRefreshing' = FALSE
    /\ UNCHANGED <<isConnected, useCRC, errorToast, triggersSent, calVars, ledVars, sentCommand,
                   frameVars, upgVars, timerErrorCount>>

\* The invoke of a read rejects: the message is shown when the count the
\* call closed over is below 5, and the count is incremented.
refreshDataRejected ==
    /\ refreshErrorCount < MaxRefreshErrors
    /\ refreshErrorsShown < MaxRefreshErrors
    /\ \E i \in DOMAIN pendingPolls :
           /\ pendingPolls' = WithoutPoll(i)
           /\ refreshErrorsShown' = IF pendingPolls[i] < 5
                                    THEN refreshErrorsShown + 1
                                    ELSE refreshErrorsShown
    /\ refreshErrorCount' = refreshErrorCount + 1
    /\ isRefreshing' = FALSE
    /\ UNCHANGED <<isConnected, useCRC, errorToast, triggersSent, calVars, ledVars, sentCommand,
                   frameVars, upgVars, rawData, timerErrorCount>>

---------------------------------------------------------------------------
(* LED test (App.jsx:172-209).                                             *)

NumLeds == 20

\* The command of sendLedTestCommand(index, stateByte).
LedCommandZeroBased(index, stateByte) == <<204, index, stateByte, 191>>

LedCommand(index, stateByte) == <<204, index + 1, stateByte, 191>>

\* A click on LED `index`: the status is flipped, the command text is shown
\* and the command is sent with the state byte of the new status.
toggleLedStatus(index) ==
    LET newStatus == ~ledTestStatuses[index]
        stateByte == IF newStatus THEN 1 ELSE 0
    IN  /\ ledToggles < MaxLedToggles
        /\ ledToggles' = ledToggles + 1
        /\ ledTestCommand' =
               "CC " \o toHex2(index + 1) \o " " \o toHex2(stateByte) \o " BF"
        /\ ledTestStatuses' = [ledTestStatuses EXCEPT ![index] = newStatus]
        /\ sentCommand' = LedCommand(index, stateByte)
        /\ UNCHANGED <<useCRC, errorToast, triggersSent, pollVars, isConnected, calVars, frameVars, upgVars>>

ToggleLed == \E index \in 0 .. (NumLeds - 1) : toggleLedStatus(index)

---------------------------------------------------------------------------
(* renderRawData (App.jsx:651-666): the raw bytes as hex text, in groups   *)
(* of 24 that start with AA, the last three of them.                       *)

\* The loop for (let i = ...; i < bytes.length - 23; i += 24) from offset i:
\* the groups pushed, in order.  bytes[i] is the hex text of the byte.
RECURSIVE GroupsFromOneShort(_, _)
GroupsFromOneShort(raw, i) ==
    IF ~(i < Len(raw) - 24) THEN <<>>
    ELSE (IF toHex2(raw[i + 1]) = "AA"
          THEN << joinHex(SubSeq(raw, i + 1, i + 24)) >>
          ELSE <<>>) \o GroupsFromOneShort(raw, i + 24)

RECURSIVE GroupsFrom(_, _)
GroupsFrom(raw, i) ==
    IF ~(i < Len(raw) - 23) THEN <<>>
    ELSE (IF toHex2(raw[i + 1]) = "AA"
          THEN << joinHex(SubSeq(raw, i + 1, i + 24)) >>
          ELSE <<>>) \o GroupsFrom(raw, i + 24)

allGroups(raw) == GroupsFrom(raw, 0)

\* allGroups.slice(-3)
recentGroups(raw) ==
    LET all == allGroups(raw)
    IN  SubSeq(all, IF Len(all) > 3 THEN Len(all) - 2 ELSE 1, Len(all))

\* The lines renderRawData shows (joined by '\n' into rawHex).
renderRawData(raw) == recentGroups(raw)

---------------------------------------------------------------------------
(* Protocol frames (App.jsx:741-802).                                      *)

\* calculateChecksum: the running sum, masked to 16 bits after each byte.
\* for (const byte of data) sum = (sum + byte) & 0xFFFF, in blocks of 32
\* bytes as above.
RECURSIVE ChecksumRange(_, _, _, _)
ChecksumRange(sum, data, lo, hi) ==
    IF lo > hi THEN sum
    ELSE LET next == And0xFFFF(sum + data[lo])
         IN  IF next = next THEN ChecksumRange(next, data, lo + 1, hi) ELSE sum

RECURSIVE ChecksumFrom(_, _, _)
ChecksumFrom(sum, data, lo) ==
    IF lo > Len(data) THEN sum
    ELSE LET next == ChecksumRange(sum, data, lo, Min(lo + 31, Len(data)))
         IN  IF next = next THEN ChecksumFrom(next, data, lo + 32) ELSE sum

calculateChecksumFromSecond(data) == ChecksumFrom(0, data, 2)

calculateChecksum(data) == ChecksumFrom(0, data, 1)

\* The 8-bit sum of generateCalibrationCommand (App.jsx:149):
\* data.reduce((sum, byte) => sum + byte, 0) & 0xFF
calibrationCrc(data) == And0xFF(reduceSum(data))

\* The bytes covered by the checksum: frame.slice(0, 4 + dataLen) once the
\* header and the data are stored.  frame is a Uint8Array, so every element
\* stored is kept modulo 256, the data length included.
FrameBody(deviceAddr, funcType, seq, data) ==
    << ToUint8(deviceAddr), ToUint8(funcType), ToUint8(seq),
       ToUint8(Len(data)) >> \o [i \in 1 .. Len(data) |-> ToUint8(data[i])]

\* buildProtocolFrame: [addr][func][seq][len] data [sum high][sum low].
buildProtocolFrameLowHigh(deviceAddr, funcType, seq, data) ==
    LET body == FrameBody(deviceAddr, funcType, seq, data)
        checksum == calculateChecksum(body)
    IN  body \o << ToUint8(And0xFF(checksum)),
                   ToUint8(And0xFF(checksum \div 256)) >>

buildProtocolFrame(deviceAddr, funcType, seq, data) ==
    LET body == FrameBody(deviceAddr, funcType, seq, data)
        checksum == calculateChecksum(body)
    IN  body \o << ToUint8(And0xFF(checksum \div 256)),
                   ToUint8(And0xFF(checksum)) >>

\* Arguments for a direct call: payloads of the lengths the upload uses (a
\* full chunk, the four CRC bytes, none) and of the lengths next to one byte.
FramePayloads ==
    { [i \in 1 .. n |-> 255] : n \in {0, 1, 4, 255, 256, 512} }
        \cup { [i \in 1 .. n |-> (i * 7) % 256] : n \in {1, 4, 255, 256, 512} }

FrameInputs ==
    [ deviceAddr : {1, 255}, funcType : {1, 6}, seq : {0, 1, 255},
      data : FramePayloads ]

callBuildProtocolFrame ==
    /\ frameOut = <<>>
    /\ frameOut' = buildProtocolFrame(frameIn.deviceAddr, frameIn.funcType,
                                      frameIn.seq, frameIn.data)
    /\ UNCHANGED <<useCRC, errorToast, triggersSent, pollVars, isConnected, calVars, ledVars, sentCommand,
                   frameIn, bytesIn, sum16Out, sum8Out, crc32Out, upgVars>>

---------------------------------------------------------------------------
(* calculateCRC32 (App.jsx:750-780).  A 32-bit word is a sequence of 32    *)
(* bits, most significant first; JavaScript's bit operators work on signed *)
(* 32-bit integers, and the value returned is such an integer.             *)

ByteBits(b) ==
    << (b \div 128) % 2, (b \div 64) % 2, (b \div 32) % 2, (b \div 16) % 2,
       (b \div 8) % 2, (b \div 4) % 2, (b \div 2) % 2, b % 2 >>

\* The word at `offset`: byte 0 in the low 8 bits, bytes past the end are 0.
WordAt(data, offset) ==
    LET at(j) == IF offset + j < Len(data) THEN data[offset + j + 1] ELSE 0
    IN  ByteBits(at(3)) \o ByteBits(at(2)) \o ByteBits(at(1)) \o ByteBits(at(0))

\* Bitwise XOR of two words.  SubSeq makes the result a plain tuple of
\* bits, so that no word is kept as an unevaluated expression over the
\* words before it.
XorBits(a, b) == SubSeq([i \in 1 .. 32 |-> (a[i] + b[i]) % 2], 1, 32)

\* polynomial = 0x04C11DB7
PolynomialBits ==
    << 0,0,0,0, 0,1,0,0, 1,1,0,0, 0,0,0,1, 0,0,0,1, 1,1,0,1, 1,0,1,1, 0,1,1,1 >>

\* One pass of the inner loop: shift left, and XOR the polynomial in when
\* the top bit was set.
ShiftStep(crc) ==
    LET shifted == Tail(crc) \o <<0>>
    IN  IF crc[1] = 1 THEN XorBits(shifted, PolynomialBits) ELSE shifted

\* ShiftStep n times.  The test makes the evaluator compute `next` here.
RECURSIVE ShiftSteps(_, _)
ShiftSteps(crc, n) ==
    IF n = 0 THEN crc
    ELSE LET next == ShiftStep(crc)
         IN  IF next = next THEN ShiftSteps(next, n - 1) ELSE crc

\* The outer loop over the words lo .. hi (counted from 0): crc ^= word, then
\* the 32 shift steps (16 and 16).  The loop runs in blocks of 8 words to
\* keep the evaluation shallow.
RECURSIVE CrcRange(_, _, _, _)
CrcRange(crc, data, lo, hi) ==
    IF lo > hi THEN crc
    ELSE LET word == XorBits(crc, WordAt(data, lo * 4))
             half == IF word = word THEN ShiftSteps(word, 16) ELSE crc
             next == IF half = half THEN ShiftSteps(half, 16) ELSE crc
         IN  IF next = next THEN CrcRange(next, data, lo + 1, hi) ELSE crc

RECURSIVE CrcFrom(_, _, _, _)
CrcFrom(crc, data, lo, wordCount) ==
    IF lo >= wordCount THEN crc
    ELSE LET next == CrcRange(crc, data, lo, Min(lo + 7, wordCount - 1))
         IN  IF next = next THEN CrcFrom(next, data, lo + 8, wordCount) ELSE crc

\* The accumulator after the first n words, from crc = 0xFFFFFFFF.
CrcAfterWords(data, n) == CrcFrom([i \in 1 .. 32 |-> 1], data, 0, n)

\* The value of bits 2..32 of a word.
RECURSIVE LowBitsValue(_, _)
LowBitsValue(w, n) ==
    IF n = 1 THEN 0 ELSE 2 * LowBitsValue(w, n - 1) + w[n]

\* The signed 32-bit integer a word stands for.
ToInt32(w) ==
    IF w[1] = 1 THEN (LowBitsValue(w, 32) - 1073741824) - 1073741824
    ELSE LowBitsValue(w, 32)

\* ~crc & 0xFFFFFFFF: the complement, as a signed 32-bit integer.
calculateCRC32(data) ==
    LET wordCount == (Len(data) + 3) \div 4
        crc == CrcAfterWords(data, wordCount)
    IN  ToInt32([i \in 1 .. 32 |-> 1 - crc[i]])

\* The four bytes of the CRC frame, low byte first; >> is an arithmetic
\* shift.
crcBytesHighFirst(crc) ==
    << And0xFF(crc \div 16777216), And0xFF(crc \div 65536),
       And0xFF(crc \div 256), And0xFF(crc) >>

crcBytes(crc) ==
    << And0xFF(crc), And0xFF(crc \div 256), And0xFF(crc \div 65536),
       And0xFF(crc \div 16777216) >>

---------------------------------------------------------------------------
(* Direct calls of the checksum and CRC computations on a byte sequence.   *)

\* The byte sequences tried: every sequence of up to 3 of five byte values,
\* and longer ones whose sum passes 16 bits or that fill several CRC words.
ShortByteInputs ==
    UNION { [1 .. n -> {0, 5, 16, 129, 255}] : n \in 0 .. 3 }

LongByteInputs ==
    { [i \in 1 .. n |-> 255] : n \in {4, 258} }
        \cup { [i \in 1 .. n |-> (i * 7) % 256] : n \in {5, 8, 300} }

ByteInputs == ShortByteInputs \cup LongByteInputs

callCalculateChecksum ==
    /\ sum16Out = <<>>
    /\ sum16Out' = << calculateChecksum(bytesIn) >>
    /\ UNCHANGED <<useCRC, errorToast, triggersSent, pollVars, isConnected, calVars, ledVars, sentCommand,
                   frameIn, frameOut, bytesIn, sum8Out, crc32Out, upgVars>>

callCalibrationCrc ==
    /\ sum8Out = <<>>
    /\ sum8Out' = << calibrationCrc(bytesIn) >>
    /\ UNCHANGED <<useCRC, errorToast, triggersSent, pollVars, isConnected, calVars, ledVars, sentCommand,
                   frameIn, frameOut, bytesIn, sum16Out, crc32Out, upgVars>>

callCalculateCRC32 ==
    /\ crc32Out = <<>>
    /\ crc32Out' = << calculateCRC32(bytesIn) >>
    /\ UNCHANGED <<useCRC, errorToast, triggersSent, pollVars, isConnected, calVars, ledVars, sentCommand,
                   frameIn, frameOut, bytesIn, sum16Out, sum8Out, upgVars>>

---------------------------------------------------------------------------
(* Firmware files.  A file is its name, its size and the rule that gives   *)
(* the byte at each offset.                                                *)

NoFile == [name |-> "", size |-> 0, seed |-> 0, step |-> 0]

SmallFiles ==
    { [name |-> "empty.bin", size |-> 0, seed |-> 0, step |-> 0],
      [name |-> "odd.bin", size |-> 513, seed |-> 17, step |-> 7] }

\* One chunk of three bytes.
ShortFiles ==
    { [name |-> "short.bin", size |-> 3, seed |-> 250, step |-> 5] }

\* Two full chunks of 0xFF.
MediumFiles ==
    { [name |-> "even.bin", size |-> 1024, seed |-> 255, step |-> 0] }

\* 256 full chunks and one byte: 257 data frames and the terminator.
LongFiles ==
    { [name |-> "long.bin", size |-> 131073, seed |-> 1, step |-> 3] }

FileByte(file, offset) == (file.seed + file.step * offset) % 256

\* firmwareData.slice(from, to)
sliceFromNext(file, from, to) ==
    [k \in 1 .. (Min(to, file.size) - from) |-> FileByte(file, from + k)]

slice(file, from, to) ==
    [k \in 1 .. (Min(to, file.size) - from) |-> FileByte(file, from + k - 1)]

\* firmwareData as a whole
FileBytes(file) == slice(file, 0, file.size)

---------------------------------------------------------------------------
(* Firmware upgrade (App.jsx:705-944 and the buttons at 965-1011).         *)

DEVICE_ADDR == 1
FUNC_SEND_DATA == 1
FUNC_SEND_CRC == 6
MAX_DATA_LEN == 512

TriggerCommand == <<245, 95, 1, 171, 191>>

\* Math.round(n / d) for n >= 0, d > 0: halves round up.
MathRoundDown(n, d) == n \div d

MathRound(n, d) == (2 * n + d) \div (2 * d)

\* Math.min(totalSize - sent, MAX_DATA_LEN)
ChunkSizeOneShort(totalSize, sent) == Min(totalSize - sent, MAX_DATA_LEN - 1)

ChunkSize(totalSize, sent) == Min(totalSize - sent, MAX_DATA_LEN)

\* sequence = (sequence + 1) % 256
NextSequenceMod255(sequence) == (sequence + 1) % 255

NextSequence(sequence) == (sequence + 1) % 256

\* The end frame: a data frame with no data, under the current sequence.
EndFrameStaleSequence(sequence) ==
    buildProtocolFrame(DEVICE_ADDR, FUNC_SEND_DATA, (sequence + 255) % 256, <<>>)

EndFrame(sequence) ==
    buildProtocolFrame(DEVICE_ADDR, FUNC_SEND_DATA, sequence, <<>>)

Slots == 1 .. MaxRuns

\* What a rejected invoke or file read is rejected with: the error string
\* of the backend.
Errors == {"write timeout", "port closed"}

NoRun ==
    [ pc |-> "none", file |-> NoFile, totalSize |-> 0, sent |-> 0,
      sequence |-> 0, crc |-> 0, frame |-> <<>>, log |-> <<>>,
      startedFrom |-> "", startedOver |-> FALSE, result |-> "", error |-> "" ]

InProgress(run) == run.pc \in {"read", "data", "delay", "crc", "end"}

\* What the log keeps of a frame the transport accepted.
LogEntry(frame) ==
    [ funcType |-> frame[2], seq |-> frame[3], lenByte |-> frame[4],
      payloadLen |-> Len(frame) - 6 ]

\* sendUpgradeCommand up to its await: without a connection it shows an error
\* and returns, otherwise the trigger is handed to the backend.
sendUpgradeCommandUnguarded ==
    /\ sentCommand' = TriggerCommand
    /\ pendingTriggers' = pendingTriggers + 1
    /\ triggersSent' = triggersSent + 1
    /\ UNCHANGED errorToast
    /\ UNCHANGED <<useCRC, pollVars, isConnected, calVars, ledVars, frameVars, firmwareFile,
                   upgradeStatus, upgradeProgress, upgradeMessage, runs>>

sendUpgradeCommand ==
    /\ IF ~isConnected
       THEN /\ errorToast' = "serial.notConnected"
            /\ UNCHANGED <<sentCommand, pendingTriggers, triggersSent>>
       ELSE /\ sentCommand' = TriggerCommand
            /\ pendingTriggers' = pendingTriggers + 1
            /\ triggersSent' = triggersSent + 1
            /\ UNCHANGED errorToast
    /\ UNCHANGED <<useCRC, pollVars, isConnected, calVars, ledVars, frameVars, firmwareFile,
                   upgradeStatus, upgradeProgress, upgradeMessage, runs>>

\* The trigger button: disabled without a connection and outside 'idle'.
TriggerButtonEnabled == isConnected /\ upgradeStatus = "idle"

\* A click on the trigger button, with fewer than `limit` calls awaiting.
clickSendUpgradeCommand(limit) ==
    /\ TriggerButtonEnabled
    /\ pendingTriggers < limit
    /\ sendUpgradeCommand

\* The invoke of a trigger resolves.
sendUpgradeCommandResolved ==
    /\ pendingTriggers > 0
    /\ pendingTriggers' = pendingTriggers - 1
    /\ upgradeStatus' = "sending"
    /\ UNCHANGED <<useCRC, errorToast, triggersSent, pollVars, isConnected, calVars, ledVars, sentCommand, frameVars,
                   firmwareFile, upgradeProgress, upgradeMessage, runs>>

\* The invoke of a trigger rejects.
sendUpgradeCommandRejected ==
    /\ pendingTriggers > 0
    /\ pendingTriggers' = pendingTriggers - 1
    /\ upgradeStatus' = "error"
    /\ UNCHANGED <<useCRC, errorToast, triggersSent, pollVars, isConnected, calVars, ledVars, sentCommand, frameVars,
                   firmwareFile, upgradeProgress, upgradeMessage, runs>>

\* The upload button opens the file dialog; it is disabled while upgrading.
handleFileUpload(files) ==
    /\ upgradeStatus # "upgrading"
    /\ \E file \in files :
           /\ file # firmwareFile
           /\ firmwareFile' = file
    /\ UNCHANGED <<useCRC, errorToast, triggersSent, pollVars, isConnected, calVars, ledVars, sentCommand, frameVars,
                   upgradeStatus, upgradeProgress, upgradeMessage,
                   pendingTriggers, runs>>

\* The delete button, shown while a file is selected.
clearFile ==
    /\ firmwareFile # NoFile
    /\ firmwareFile' = NoFile
    /\ UNCHANGED <<useCRC, errorToast, triggersSent, pollVars, isConnected, calVars, ledVars, sentCommand, frameVars,
                   upgradeStatus, upgradeProgress, upgradeMessage,
                   pendingTriggers, runs>>

UpgradeButtonEnabled ==
    isConnected /\ firmwareFile # NoFile /\ upgradeStatus # "upgrading"

\* The loop condition of the chunk loop and what follows the loop, up to the
\* next await: the next frame is built and handed to sendFrame.  The result
\* is the run and the message shown.
IssueNextFrame(run, msg) ==
    IF run.sent < run.totalSize
    THEN LET chunkSize == ChunkSize(run.totalSize, run.sent)
             chunk == slice(run.file, run.sent, run.sent + chunkSize)
         IN  [ run |-> [run EXCEPT
                   !.pc = "data",
                   !.frame = buildProtocolFrame(DEVICE_ADDR, FUNC_SEND_DATA,
                                                run.sequence, chunk)],
               msg |-> msg ]
    ELSE IF useCRC /\ run.pc # "crc"
    THEN [ run |-> [run EXCEPT
               !.pc = "crc",
               !.frame = buildProtocolFrame(DEVICE_ADDR, FUNC_SEND_CRC,
                                            run.sequence, crcBytes(run.crc))],
           msg |-> <<"sendingCRC">> ]
    ELSE [ run |-> [run EXCEPT
               !.pc = "end",
               !.frame = EndFrame(run.sequence)],
           msg |-> <<"sendingEndFlag">> ]

\* startUpgrade up to its first await (the read of the file).  The run keeps
\* the status it was started from and whether it was started over a progress
\* above 0.
startUpgradeBodyKeepProgress(r) ==
    IF ~isConnected
    THEN /\ errorToast' = "serial.notConnected"
         /\ UNCHANGED <<upgradeStatus, upgradeProgress, upgradeMessage, runs>>
    ELSE IF firmwareFile = NoFile
    THEN /\ errorToast' = "firmwareUpgrade.noFileSelected"
         /\ UNCHANGED <<upgradeStatus, upgradeProgress, upgradeMessage, runs>>
    ELSE /\ UNCHANGED errorToast
         /\ upgradeStatus' = "upgrading"
         /\ upgradeProgress' = upgradeProgress
         /\ upgradeMessage' = <<"starting">>
         /\ runs' = [runs EXCEPT ![r] =
                [NoRun EXCEPT !.pc = "read", !.file = firmwareFile,
                              !.startedFrom = upgradeStatus,
                              !.startedOver = upgradeProgress > 0]]

startUpgradeBody(r) ==
    IF ~isConnected
    THEN /\ errorToast' = "serial.notConnected"
         /\ UNCHANGED <<upgradeStatus, upgradeProgress, upgradeMessage, runs>>
    ELSE IF firmwareFile = NoFile
    THEN /\ errorToast' = "firmwareUpgrade.noFileSelected"
         /\ UNCHANGED <<upgradeStatus, upgradeProgress, upgradeMessage, runs>>
    ELSE /\ UNCHANGED errorToast
         /\ upgradeStatus' = "upgrading"
         /\ upgradeProgress' = 0
         /\ upgradeMessage' = <<"starting">>
         /\ runs' = [runs EXCEPT ![r] =
                [NoRun EXCEPT !.pc = "read", !.file = firmwareFile,
                              !.startedFrom = upgradeStatus,
                              !.startedOver = upgradeProgress > 0]]

\* A call of startUpgrade.  The call takes the first free place.
startUpgrade ==
    /\ \E r \in Slots :
           /\ ~InProgress(runs[r])
           /\ \A q \in Slots : q < r => InProgress(runs[q])
           /\ startUpgradeBody(r)
    /\ UNCHANGED <<useCRC, triggersSent, pollVars, isConnected, calVars, ledVars, sentCommand, frameVars,
                   firmwareFile, pendingTriggers>>

\* A click on the upgrade button.
clickStartUpgrade ==
    /\ UpgradeButtonEnabled
    /\ startUpgrade

\* The catch block of startUpgrade, entered with the value thrown.
catchUpgradeErrorToIdle(r, err) ==
    /\ upgradeStatus' = "idle"
    /\ upgradeMessage' = <<"upgradeError", err>>
    /\ runs' = [runs EXCEPT ![r].pc = "done", ![r].result = "error",
                            ![r].error = err]
    /\ UNCHANGED <<useCRC, errorToast, triggersSent, pollVars, isConnected, calVars, ledVars, sentCommand, frameVars,
                   firmwareFile, upgradeProgress, pendingTriggers>>

catchUpgradeError(r, err) ==
    /\ upgradeStatus' = "error"
    /\ upgradeMessage' = <<"upgradeError", err>>
    /\ runs' = [runs EXCEPT ![r].pc = "done", ![r].result = "error",
                            ![r].error = err]
    /\ UNCHANGED <<useCRC, errorToast, triggersSent, pollVars, isConnected, calVars, ledVars, sentCommand, frameVars,
                   firmwareFile, upgradeProgress, pendingTriggers>>

\* firmwareFile.arrayBuffer() resolves: the sizes and counters are set and
\* the first frame is sent.
fileReadResolved(r) ==
    /\ runs[r].pc = "read"
    /\ LET run == [runs[r] EXCEPT
                      !.totalSize = runs[r].file.size,
                      !.crc = IF useCRC
                              THEN calculateCRC32(FileBytes(runs[r].file))
                              ELSE 0,
                      !.sent = 0,
                      !.sequence = 0]
           next == IssueNextFrame(run, IF useCRC THEN <<"CRC32", run.crc>>
                                       ELSE <<"sendingFirmware">>)
       IN  /\ runs' = [runs EXCEPT ![r] = next.run]
           /\ upgradeMessage' = next.msg
    /\ UNCHANGED <<useCRC, errorToast, triggersSent, pollVars, isConnected, calVars, ledVars, sentCommand, frameVars,
                   firmwareFile, upgradeStatus, upgradeProgress,
                   pendingTriggers>>

\* firmwareFile.arrayBuffer() rejects.
fileReadRejected(r) ==
    /\ runs[r].pc = "read"
    /\ \E err \in Errors : catchUpgradeError(r, err)

\* The invoke of sendFrame resolves.  After a data frame: progress and
\* sequence are updated and the 50 ms delay starts.  After the CRC frame: the
\* sequence is updated and the end frame is sent.  After the end frame: the
\* upgrade is completed.
sendFrameResolved(r) ==
    LET run == [runs[r] EXCEPT !.log = Append(runs[r].log, LogEntry(runs[r].frame))]
    IN  /\ runs[r].pc \in {"data", "crc", "end"}
        /\ CASE run.pc = "data" ->
                  LET sent == run.sent + ChunkSize(run.totalSize, run.sent)
                      percent == MathRound(sent * 100, run.totalSize)
                  IN  /\ runs' = [runs EXCEPT ![r] =
                             [run EXCEPT !.sent = sent,
                                         !.sequence = NextSequence(run.sequence),
                                         !.pc = "delay"]]
                      /\ upgradeProgress' = percent
                      /\ upgradeMessage' = <<"sendingFirmware", percent>>
                      /\ UNCHANGED upgradeStatus
             [] run.pc = "crc" ->
                  LET next == IssueNextFrame(
                                  [run EXCEPT !.sequence = NextSequence(run.sequence)],
                                  upgradeMessage)
                  IN  /\ runs' = [runs EXCEPT ![r] = next.run]
                      /\ upgradeMessage' = next.msg
                      /\ UNCHANGED <<upgradeStatus, upgradeProgress>>
             [] run.pc = "end" ->
                  /\ runs' = [runs EXCEPT ![r] =
                         [run EXCEPT !.pc = "done", !.result = "completed"]]
                  /\ upgradeStatus' = "completed"
                  /\ upgradeProgress' = 100
                  /\ upgradeMessage' = <<"completed">>
        /\ UNCHANGED <<useCRC, errorToast, triggersSent, pollVars, isConnected, calVars, ledVars, sentCommand, frameVars,
                       firmwareFile, pendingTriggers>>

\* The invoke of sendFrame rejects: a transport fault.
sendFrameRejectedResent(r) ==
    /\ runs[r].pc \in {"data", "crc", "end"}
    /\ \E err \in Errors :
           /\ upgradeStatus' = "error"
           /\ upgradeMessage' = <<"upgradeError", err>>
           /\ runs' = [runs EXCEPT ![r].error = err]
    /\ UNCHANGED <<useCRC, errorToast, triggersSent, pollVars, isConnected, calVars, ledVars, sentCommand, frameVars,
                   firmwareFile, upgradeProgress, pendingTriggers>>

sendFrameRejected(r) ==
    /\ runs[r].pc \in {"data", "crc", "end"}
    /\ \E err \in Errors : catchUpgradeError(r, err)

\* The 50 ms delay after a data frame is over: the loop goes on.
delayElapsed(r) ==
    /\ runs[r].pc = "delay"
    /\ LET next == IssueNextFrame(runs[r], upgradeMessage)
       IN  /\ runs' = [runs EXCEPT ![r] = next.run]
           /\ upgradeMessage' = next.msg
    /\ UNCHANGED <<useCRC, errorToast, triggersSent, pollVars, isConnected, calVars, ledVars, sentCommand, frameVars,
                   firmwareFile, upgradeStatus, upgradeProgress,
                   pendingTriggers>>

FileReadResolved == \E r \in Slots : fileReadResolved(r)
FileReadRejected == \E r \in Slots : fileReadRejected(r)
SendFrameResolved == \E r \in Slots : sendFrameResolved(r)
SendFrameRejected == \E r \in Slots : sendFrameRejected(r)
DelayElapsed == \E r \in Slots : delayElapsed(r)

---------------------------------------------------------------------------
(* Initial state: the component after its first render and effects.        *)

NoDirectCall ==
    /\ bytesIn = <<>>
    /\ sum16Out = <<>>
    /\ sum8Out = <<>>
    /\ crc32Out = <<>>

InitialPollState ==
    /\ rawData = <<>>
    /\ isRefreshing = FALSE
    /\ refreshErrorCount = 0
    /\ timerErrorCount = 0
    /\ refreshErrorsShown = 0
    /\ pendingPolls = <<>>

Init ==
    /\ isConnected = FALSE
    /\ calibrationConfig = InitialCalibrationConfig
    /\ calFrame = CalibrationFrame(InitialCalibrationConfig)
    /\ calibrationCommand = joinHex(CalibrationFrame(InitialCalibrationConfig))
    /\ ledTestStatuses = [i \in 0 .. (NumLeds - 1) |-> FALSE]
    /\ ledTestCommand = ""
    /\ ledToggles = 0
    /\ sentCommand = <<>>
    /\ frameIn = <<>>
    /\ frameOut = <<>>
    /\ NoDirectCall
    /\ firmwareFile = NoFile
    /\ upgradeStatus = "idle"
    /\ upgradeProgress = 0
    /\ upgradeMessage = <<>>
    /\ pendingTriggers = 0
    /\ runs = [r \in Slots |-> NoRun]
    /\ useCRC = FALSE
    /\ errorToast = ""
    /\ triggersSent = 0
    /\ InitialPollState

\* The calibration page.
NextCalibration ==
    \/ connectMatrix
    \/ disconnectMatrix
    \/ ChangeChannelEnabled
    \/ ChangeChannelNumber
    \/ ChangeCalibrationMode
    \/ ChangeCalibrationType
    \/ ChangeDeviceType
    \/ sendCalibrationCommand

SpecCalibration == Init /\ [][NextCalibration]_vars

\* The LED test page.
NextLed == ToggleLed

SpecLed == Init /\ [][NextLed]_vars

\* The firmware upgrade page, with files of up to three chunks.
Next ==
    \/ connectMatrix
    \/ disconnectMatrix
    \/ clickSendUpgradeCommand(MaxPendingTriggers)
    \/ sendUpgradeCommandResolved
    \/ sendUpgradeCommandRejected
    \/ handleFileUpload(SmallFiles)
    \/ clearFile
    \/ clickStartUpgrade
    \/ FileReadResolved
    \/ FileReadRejected
    \/ SendFrameResolved
    \/ SendFrameRejected
    \/ DelayElapsed

Spec == Init /\ [][Next]_vars

\* The firmware upgrade page with an image of two full chunks.
NextTwoChunks ==
    \/ connectMatrix
    \/ disconnectMatrix
    \/ clickSendUpgradeCommand(MaxPendingTriggers)
    \/ sendUpgradeCommandResolved
    \/ sendUpgradeCommandRejected
    \/ handleFileUpload(MediumFiles)
    \/ clearFile
    \/ clickStartUpgrade
    \/ FileReadResolved
    \/ FileReadRejected
    \/ SendFrameResolved
    \/ SendFrameRejected
    \/ DelayElapsed

SpecTwoChunks == Init /\ [][NextTwoChunks]_vars

\* The firmware upgrade page without the trigger step, with files of every
\* length class up to more than 256 chunks.
NextUpload ==
    \/ connectMatrix
    \/ disconnectMatrix
    \/ handleFileUpload(SmallFiles \cup MediumFiles \cup LongFiles)
    \/ clearFile
    \/ clickStartUpgrade
    \/ FileReadResolved
    \/ FileReadRejected
    \/ SendFrameResolved
    \/ SendFrameRejected
    \/ DelayElapsed

SpecUpload == Init /\ [][NextUpload]_vars

\* The upload as a user drives it and, besides the clicks, the two handlers
\* of the page called where their buttons are disabled for want of a
\* connection or of a file.
NextHandlers ==
    \/ connectMatrix
    \/ disconnectMatrix
    \/ ~isConnected /\ sendUpgradeCommand
    \/ handleFileUpload(SmallFiles)
    \/ clearFile
    \/ clickStartUpgrade
    \/ (~isConnected \/ firmwareFile = NoFile) /\ startUpgrade
    \/ FileReadResolved
    \/ FileReadRejected
    \/ SendFrameResolved
    \/ SendFrameRejected
    \/ DelayElapsed

SpecHandlers == Init /\ [][NextHandlers]_vars

\* The firmware upgrade page with an image of one short chunk and the trigger
\* button clicked again while an earlier trigger awaits its invoke.
NextTrigger ==
    \/ connectMatrix
    \/ disconnectMatrix
    \/ clickSendUpgradeCommand(MaxTriggerClicks)
    \/ sendUpgradeCommandResolved
    \/ sendUpgradeCommandRejected
    \/ handleFileUpload(ShortFiles)
    \/ clearFile
    \/ clickStartUpgrade
    \/ FileReadResolved
    \/ FileReadRejected
    \/ SendFrameResolved
    \/ SendFrameRejected
    \/ DelayElapsed

SpecTrigger == Init /\ [][NextTrigger]_vars

\* buildProtocolFrame on its own, over the arguments of FrameInputs.
InitFrame ==
    /\ isConnected = FALSE
    /\ calibrationConfig = InitialCalibrationConfig
    /\ calFrame = CalibrationFrame(InitialCalibrationConfig)
    /\ calibrationCommand = joinHex(CalibrationFrame(InitialCalibrationConfig))
    /\ ledTestStatuses = [i \in 0 .. (NumLeds - 1) |-> FALSE]
    /\ ledTestCommand = ""
    /\ ledToggles = 0
    /\ sentCommand = <<>>
    /\ frameIn \in FrameInputs
    /\ frameOut = <<>>
    /\ NoDirectCall
    /\ firmwareFile = NoFile
    /\ upgradeStatus = "idle"
    /\ upgradeProgress = 0
    /\ upgradeMessage = <<>>
    /\ pendingTriggers = 0
    /\ runs = [r \in Slots |-> NoRun]
    /\ useCRC = FALSE
    /\ errorToast = ""
    /\ triggersSent = 0
    /\ InitialPollState

NextFrame == callBuildProtocolFrame

SpecFrame == InitFrame /\ [][NextFrame]_vars

\* The checksum and CRC computations on their own, over ByteInputs.
InitChecksum ==
    /\ isConnected = FALSE
    /\ calibrationConfig = InitialCalibrationConfig
    /\ calFrame = CalibrationFrame(InitialCalibrationConfig)
    /\ calibrationCommand = joinHex(CalibrationFrame(InitialCalibrationConfig))
    /\ ledTestStatuses = [i \in 0 .. (NumLeds - 1) |-> FALSE]
    /\ ledTestCommand = ""
    /\ ledToggles = 0
    /\ sentCommand = <<>>
    /\ frameIn = <<>>
    /\ frameOut = <<>>
    /\ bytesIn \in ByteInputs
    /\ sum16Out = <<>>
    /\ sum8Out = <<>>
    /\ crc32Out = <<>>
    /\ firmwareFile = NoFile
    /\ upgradeStatus = "idle"
    /\ upgradeProgress = 0
    /\ upgradeMessage = <<>>
    /\ pendingTriggers = 0
    /\ runs = [r \in Slots |-> NoRun]
    /\ useCRC = FALSE
    /\ errorToast = ""
    /\ triggersSent = 0
    /\ InitialPollState

NextChecksum ==
    \/ callCalculateChecksum
    \/ callCalibrationCrc
    \/ callCalculateCRC32

SpecChecksum == InitChecksum /\ [][NextChecksum]_vars

\* The upload with the integrity switch of App.jsx:847 in either position:
\* false as the source has it, or true.
InitIntegrity ==
    /\ isConnected = FALSE
    /\ calibrationConfig = InitialCalibrationConfig
    /\ calFrame = CalibrationFrame(InitialCalibrationConfig)
    /\ calibrationCommand = joinHex(CalibrationFrame(InitialCalibrationConfig))
    /\ ledTestStatuses = [i \in 0 .. (NumLeds - 1) |-> FALSE]
    /\ ledTestCommand = ""
    /\ ledToggles = 0
    /\ sentCommand = <<>>
    /\ frameIn = <<>>
    /\ frameOut = <<>>
    /\ NoDirectCall
    /\ firmwareFile = NoFile
    /\ upgradeStatus = "idle"
    /\ upgradeProgress = 0
    /\ upgradeMessage = <<>>
    /\ pendingTriggers = 0
    /\ runs = [r \in Slots |-> NoRun]
    /\ useCRC \in BOOLEAN
    /\ errorToast = ""
    /\ triggersSent = 0
    /\ InitialPollState

NextIntegrity ==
    \/ connectMatrix
    \/ disconnectMatrix
    \/ handleFileUpload(SmallFiles)
    \/ clearFile
    \/ clickStartUpgrade
    \/ FileReadResolved
    \/ FileReadRejected
    \/ SendFrameResolved
    \/ SendFrameRejected
    \/ DelayElapsed

SpecIntegrity == InitIntegrity /\ [][NextIntegrity]_vars

\* The upload next to the telemetry refresh: the interval and the refresh
\* button, with reads that succeed.
NextPolling ==
    \/ connectMatrix
    \/ disconnectMatrix
    \/ handleFileUpload(SmallFiles)
    \/ clearFile
    \/ clickStartUpgrade
    \/ FileReadResolved
    \/ FileReadRejected
    \/ SendFrameResolved
    \/ SendFrameRejected
    \/ DelayElapsed
    \/ timerTick
    \/ clickRefresh
    \/ refreshDataResolved(OneFrameBuffers)

SpecPolling == Init /\ [][NextPolling]_vars

\* The telemetry refresh on its own, with reads that succeed or fail.
NextTelemetry ==
    \/ connectMatrix
    \/ disconnectMatrix
    \/ timerTick
    \/ clickRefresh
    \/ refreshDataResolved(TelemetryBuffers)
    \/ refreshDataRejected

SpecTelemetry == Init /\ [][NextTelemetry]_vars

---------------------------------------------------------------------------
(* Properties.                                                             *)

BoolByte(b) == IF b THEN 1 ELSE 0

\* C1: the frame generateCalibrationCommand returns for the current config
\* is the 10 bytes 81 10 05, enabled (0/1), channel, mode, type, device type,
\* 00 and the sum of the first 8 of them kept to its low 8 bits; the frame
\* handed to the backend by the calibration button is that frame.
C1_CalibrationFrame ==
    LET cfg == calibrationConfig
        sum == 129 + 16 + 5 + BoolByte(cfg.channelEnabled) + cfg.channelNumber
                 + cfg.calibrationMode + cfg.calibrationType + cfg.deviceType
    IN  /\ Len(calFrame) = 10
        /\ calFrame[1] = 129 /\ calFrame[2] = 16 /\ calFrame[3] = 5
        /\ calFrame[4] = BoolByte(cfg.channelEnabled)
        /\ calFrame[5] = cfg.channelNumber
        /\ calFrame[6] = cfg.calibrationMode
        /\ calFrame[7] = cfg.calibrationType
        /\ calFrame[8] = cfg.deviceType
        /\ calFrame[9] = 0
        /\ calFrame[10] \in 0 .. 255
        /\ \E k \in -1 .. 1 : sum = calFrame[10] + 256 * k
        /\ sentCommand # <<>> =>
               /\ Len(sentCommand) = 10
               /\ sentCommand[9] = 0
               /\ sentCommand[10] \in 0 .. 255
               /\ \E k \in -1 .. 1 :
                      sentCommand[1] + sentCommand[2] + sentCommand[3]
                        + sentCommand[4] + sentCommand[5] + sentCommand[6]
                        + sentCommand[7] + sentCommand[8]
                      = sentCommand[10] + 256 * k

\* C1 witness: a frame was sent whose byte sum exceeds 8 bits (channel 255).
C1_Witness ==
    /\ sentCommand = calFrame
    /\ calibrationConfig.channelNumber = 255
    /\ calFrame[10] = (150 + BoolByte(calibrationConfig.channelEnabled) + 255
                        + calibrationConfig.calibrationMode
                        + calibrationConfig.calibrationType
                        + calibrationConfig.deviceType) - 256

DefaultFrame(checksum) == <<129, 16, 5, 1, 1, 2, 2, 1, 0, checksum>>

\* C2 as amended: for {enabled, channel 1, mode 2, type 2, device type 1} the
\* frame is 81 10 05 01 01 02 02 01 00 9D: the 8 bytes sum to 0x9D.
C2_DefaultFrame9D ==
    calibrationConfig = InitialCalibrationConfig =>
        /\ calFrame = DefaultFrame(157)
        /\ calibrationCommand = "81 10 05 01 01 02 02 01 00 9D"

\* C2 as stated: for that config the checksum byte is 0x94.
C2_DefaultFrame94 ==
    calibrationConfig = InitialCalibrationConfig => calFrame = DefaultFrame(148)

\* C2 witness: the frame of that config was sent.
C2_Witness ==
    /\ calibrationConfig = InitialCalibrationConfig
    /\ sentCommand = DefaultFrame(157)

\* C3: the LED command sent is CC, the 1-based LED number, 01 or 00, BF,
\* four bytes; its state byte is the status shown for that LED after the
\* click, and the text shown is that command (LED 0 on: CC 01 01 BF; LED 19
\* off: CC 14 00 BF).
C3_LedFrame ==
    sentCommand # <<>> =>
        LET index == sentCommand[2] - 1
        IN  /\ index \in 0 .. 19
            /\ sentCommand =
                   <<204, index + 1, BoolByte(ledTestStatuses[index]), 191>>
            /\ ledTestCommand = joinHex(sentCommand)
            /\ (index = 0 /\ ledTestStatuses[0]) =>
                   /\ sentCommand = <<204, 1, 1, 191>>
                   /\ ledTestCommand = "CC 01 01 BF"
            /\ (index = 19 /\ ~ledTestStatuses[19]) =>
                   /\ sentCommand = <<204, 20, 0, 191>>
                   /\ ledTestCommand = "CC 14 00 BF"

\* C3 witness: LED 19 was switched on and then off.
C3_Witness ==
    /\ sentCommand = <<204, 20, 0, 191>>
    /\ ledTestCommand = "CC 14 00 BF"
    /\ ~ledTestStatuses[19]
    /\ ledToggles = 2

IsDataEntry(e) == e.funcType = FUNC_SEND_DATA /\ e.payloadLen > 0
IsTerminator(e) == e.funcType = FUNC_SEND_DATA /\ e.payloadLen = 0

DataEntries(log) == SelectSeq(log, IsDataEntry)

PayloadTotal(log) == reduceSum([i \in 1 .. Len(log) |-> log[i].payloadLen])

\* The chunk loop of the run is over: every chunk was accepted.
AllChunksSent(run) ==
    /\ run.pc \in {"delay", "crc", "end", "done"}
    /\ run.sent >= run.totalSize
    /\ run.pc = "done" => run.result = "completed"

C6_Sequence ==
    \A r \in Slots :
        LET log == runs[r].log
        IN  /\ Len(log) > 0 => log[1].seq = 0
            /\ \A i \in 1 .. (Len(log) - 1) :
                   /\ log[i].seq < 255 => log[i + 1].seq = log[i].seq + 1
                   /\ log[i].seq = 255 => log[i + 1].seq = 0

\* C6 witness: a transfer of 258 frames wrapped from 255 to 0 and ended with
\* the terminator under number 1.
C6_Witness ==
    \E r \in Slots :
        /\ runs[r].result = "completed"
        /\ Len(runs[r].log) = 258
        /\ runs[r].log[256].seq = 255
        /\ runs[r].log[257].seq = 0
        /\ runs[r].log[258].seq = 1

\* C7: a transfer that did not fail sent exactly one terminator (function
\* type 1, no payload), as its last frame, after every data frame, under the
\* number after that of the frame before it; and whenever a terminator is
\* among the frames sent it is the last of them and the transfer is over.
C7_Terminator ==
    \A r \in Slots :
        LET log == runs[r].log
            n == Len(log)
        IN  /\ \A i \in 1 .. n :
                   IsTerminator(log[i]) => i = n /\ runs[r].pc = "done"
            /\ runs[r].result = "completed" =>
                   /\ n > 0
                   /\ IsTerminator(log[n])
                   /\ Len(DataEntries(log)) = n - 1
                   /\ PayloadTotal(log) = runs[r].totalSize
                   /\ log[n].seq = (n - 1) % 256

\* C7 witness: a completed transfer of two data frames and the terminator.
C7_Witness ==
    \E r \in Slots :
        /\ runs[r].result = "completed"
        /\ runs[r].totalSize = 1024
        /\ Len(runs[r].log) = 3
        /\ IsTerminator(runs[r].log[3])
        /\ runs[r].log[3].seq = 2

\* C8: in every frame of a transfer the data length byte is the number of
\* payload bytes of the frame, so that only the terminator has the byte 0.
C8_LengthByte ==
    \A r \in Slots :
        \A i \in 1 .. Len(runs[r].log) :
            LET e == runs[r].log[i]
            IN  /\ e.lenByte = e.payloadLen
                /\ e.lenByte = 0 => IsTerminator(e)

\* C9: at most one call of startUpgrade is in progress at any time.
C9_SingleRun ==
    Cardinality({r \in Slots : InProgress(runs[r])}) <= 1

StatusChanged == upgradeStatus' # upgradeStatus

\* C10 as amended: the status never returns to idle; it becomes 'sending'
\* only when a trigger send resolves, 'upgrading' only when a call of
\* startUpgrade starts, from any of idle, sending, completed and error,
\* 'completed' only when the terminator send of a run resolves, and 'error'
\* only when a trigger send, the file read or a frame send rejects.
C10_Lifecycle ==
    [][ StatusChanged =>
          /\ upgradeStatus' \in {"sending", "upgrading", "completed", "error"}
          /\ upgradeStatus' = "sending" =>
                 pendingTriggers' = pendingTriggers - 1
          /\ upgradeStatus' = "upgrading" =>
                 /\ upgradeStatus \in {"idle", "sending", "completed", "error"}
                 /\ \E r \in Slots :
                        /\ ~InProgress(runs[r])
                        /\ runs'[r].pc = "read"
                        /\ runs'[r].startedFrom = upgradeStatus
          /\ upgradeStatus' = "completed" =>
                 \E r \in Slots :
                     /\ runs[r].pc = "end"
                     /\ runs'[r].result = "completed"
                     /\ IsTerminator(runs'[r].log[Len(runs'[r].log)])
          /\ upgradeStatus' = "error" =>
                 \/ pendingTriggers' = pendingTriggers - 1
                 \/ \E r \in Slots :
                        /\ InProgress(runs[r])
                        /\ runs'[r].result = "error"
      ]_vars

\* C10 as stated: the status changes only along idle -> sending -> upgrading
\* -> completed, or to error; completed and error are left by no step.
C10_Original ==
    [][ StatusChanged =>
          \/ upgradeStatus = "idle" /\ upgradeStatus' = "sending"
          \/ upgradeStatus = "sending" /\ upgradeStatus' = "upgrading"
          \/ upgradeStatus = "upgrading" /\ upgradeStatus' = "completed"
          \/ /\ upgradeStatus \in {"idle", "sending", "upgrading"}
             /\ upgradeStatus' = "error"
      ]_vars

\* C10 witness: an upload started from the error state and completed.
C10_Witness ==
    \E r \in Slots :
        /\ runs[r].startedFrom = "error"
        /\ runs[r].result = "completed"
        /\ upgradeStatus = "completed"

\* A frame send of run r is rejected in this step.
FaultStep(r) == runs[r].pc \in {"data", "crc", "end"} /\ runs'[r].error # ""

\* C11: when the send of a frame of a transfer is rejected, the status
\* becomes 'error' and the message shown carries the error thrown, the
\* transfer is over with no frame added to those sent; and a transfer that
\* failed sends nothing more and never completes: its record changes only
\* when a new call of startUpgrade starts from the beginning.
C11_TransportFault ==
    [][ \A r \in Slots :
          /\ FaultStep(r) =>
                 /\ runs'[r].error \in Errors
                 /\ upgradeStatus' = "error"
                 /\ upgradeMessage' = <<"upgradeError", runs'[r].error>>
                 /\ runs'[r].pc = "done"
                 /\ runs'[r].result = "error"
                 /\ runs'[r].log = runs[r].log
                 /\ runs'[r].frame = runs[r].frame
          /\ runs[r].result = "error" =>
                 \/ runs'[r] = runs[r]
                 \/ /\ runs'[r].pc = "read"
                    /\ runs'[r].log = <<>>
                    /\ runs'[r].result = ""
      ]_vars

\* C11 witness: the second data frame of a transfer was rejected with "port
\* closed": one frame went out, the status is 'error' with that error.
C11_Witness ==
    \E r \in Slots :
        /\ runs[r].result = "error"
        /\ runs[r].error = "port closed"
        /\ Len(runs[r].log) = 1
        /\ runs[r].frame[3] = 1
        /\ upgradeStatus = "error"
        /\ upgradeMessage = <<"upgradeError", "port closed">>

IsCrcEntry(e) == e.funcType = FUNC_SEND_CRC

\* Byte k (0 the least significant) of a 32-bit word given as its bits.
ByteOfWord(w, k) ==
    LET b == 24 - 8 * k
    IN  128 * w[b + 1] + 64 * w[b + 2] + 32 * w[b + 3] + 16 * w[b + 4]
          + 8 * w[b + 5] + 4 * w[b + 6] + 2 * w[b + 7] + w[b + 8]

\* The complement of the accumulator over the whole image, as bits.
ImageCrcWord(file) ==
    LET acc == CrcAfterWords(FileBytes(file), (file.size + 3) \div 4)
    IN  [i \in 1 .. 32 |-> 1 - acc[i]]

\* C12: with useCRC true a transfer sends at most one frame of function type
\* 6, a completed one exactly one: it comes after the data frames, which
\* carry the whole image, and just before the terminator, under the next
\* sequence number, and the terminator under the one after; its payload is
\* the 4 bytes of the CRC of the image, least significant first.  With
\* useCRC false no frame of function type 6 is ever built or sent.
C12_CrcFrame ==
    \A r \in Slots :
        LET run == runs[r]
            log == run.log
            n == Len(log)
        IN  /\ ~useCRC =>
                   /\ run.pc # "crc"
                   /\ \A i \in 1 .. n : ~IsCrcEntry(log[i])
                   /\ run.frame # <<>> => run.frame[2] = FUNC_SEND_DATA
            /\ useCRC =>
                   /\ \A i \in 1 .. n :
                          IsCrcEntry(log[i]) =>
                              /\ \A j \in 1 .. (i - 1) : IsDataEntry(log[j])
                              /\ PayloadTotal(SubSeq(log, 1, i - 1)) = run.totalSize
                              /\ log[i].payloadLen = 4
                              /\ log[i].lenByte = 4
                              /\ log[i].seq = (i - 1) % 256
                              /\ i < n => /\ n = i + 1
                                          /\ IsTerminator(log[n])
                                          /\ log[n].seq = i % 256
                   /\ run.result = "completed" =>
                          n >= 2 /\ IsCrcEntry(log[n - 1])
                   /\ run.pc = "crc" =>
                          LET crc == ImageCrcWord(run.file)
                          IN  /\ Len(run.frame) = 10
                              /\ SubSeq(run.frame, 1, 8) =
                                     << DEVICE_ADDR, FUNC_SEND_CRC, n % 256, 4,
                                        ByteOfWord(crc, 0), ByteOfWord(crc, 1),
                                        ByteOfWord(crc, 2), ByteOfWord(crc, 3) >>
                              /\ \A j \in 1 .. n : IsDataEntry(log[j])

\* C12 witness: with useCRC true the 513-byte image went out as two data
\* frames, the CRC frame under number 2 and the terminator under number 3.
C12_Witness ==
    \E r \in Slots :
        /\ useCRC
        /\ runs[r].result = "completed"
        /\ runs[r].totalSize = 513
        /\ Len(runs[r].log) = 4
        /\ IsCrcEntry(runs[r].log[3])
        /\ runs[r].log[3].seq = 2
        /\ IsTerminator(runs[r].log[4])
        /\ runs[r].log[4].seq = 3

\* The run has just had a data frame accepted and updated the progress.
AfterDataFrame(run) == run.pc = "delay"

\* C13 as amended: after each data frame the progress shown is sent * 100 / L
\* rounded to the nearest integer, a half rounded up (Math.round), where
\* sent counts the image bytes sent so far; the message shows the same number.
C13_ProgressRounded ==
    \A r \in Slots :
        AfterDataFrame(runs[r]) =>
            LET L == runs[r].totalSize
                sent == runs[r].sent
                p == upgradeProgress
            IN  /\ sent = PayloadTotal(runs[r].log)
                /\ p \in 0 .. 100
                /\ (2 * p - 1) * L <= 200 * sent
                /\ 200 * sent < (2 * p + 1) * L
                /\ upgradeMessage = <<"sendingFirmware", p>>

\* C13 as stated: after each data frame the progress is floor(sent * 100 / L).
C13_ProgressFloor ==
    \A r \in Slots :
        AfterDataFrame(runs[r]) =>
            /\ upgradeProgress * runs[r].totalSize <= 100 * runs[r].sent
            /\ 100 * runs[r].sent < (upgradeProgress + 1) * runs[r].totalSize

\* C13 witness: 512 of 513 bytes are sent and the progress shown is 100.
C13_Witness ==
    \E r \in Slots :
        /\ AfterDataFrame(runs[r])
        /\ runs[r].totalSize = 513
        /\ runs[r].sent = 512
        /\ upgradeProgress = 100

\* What the user can do on the page while an upload runs: every handler of
\* the upgrade page and the connection buttons.
UserOperation ==
    \/ connectMatrix
    \/ disconnectMatrix
    \/ clickSendUpgradeCommand(MaxPendingTriggers)
    \/ handleFileUpload(SmallFiles)
    \/ clearFile
    \/ clickStartUpgrade

\* C14: between two chunk sends of a running transfer (during the delay
\* after a data frame) the user has an operation that ends the transfer as
\* failed, so that no further chunk is sent.
C14_CancelStops ==
    \A r \in Slots :
        runs[r].pc = "delay" =>
            ENABLED ( /\ UserOperation
                      /\ runs'[r].pc = "done"
                      /\ runs'[r].result = "error" )

\* A call of refreshData hands a read to the backend in this step.
PollIssued == Len(pendingPolls') > Len(pendingPolls)

\* C15: no read of telemetry is issued while a transfer is in progress: in
\* a step that issues one the status is not 'upgrading' and no call of
\* startUpgrade is between its start and its end.
C15_NoPollDuringTransfer ==
    [][ PollIssued =>
          /\ upgradeStatus # "upgrading"
          /\ \A r \in Slots : ~InProgress(runs[r])
      ]_vars

\* The offsets 0, 24, 48, ... at which a whole run of 24 bytes starts with
\* the byte 0xAA.
ValidOffsets(raw) ==
    {o \in 0 .. (Len(raw) - 24) : o % 24 = 0 /\ raw[o + 1] = 170}

\* C16: the lines shown for the raw buffer are the runs of 24 bytes at the
\* last three (or fewer) of the offsets 0, 24, 48, ... where a whole run
\* starts with 0xAA, in buffer order, each as the hex text of its 24 bytes;
\* a 50-byte buffer with 0xAA at 0 and 24 and not at 48 gives 2 lines.
C16_Grouper ==
    LET shown == renderRawData(rawData)
        starts == ValidOffsets(rawData)
        n == Len(shown)
        nth(k) == CHOOSE o \in starts :
                      Cardinality({q \in starts : q > o}) = n - k
    IN  /\ n = Min(3, Cardinality(starts))
        /\ \A k \in 1 .. n :
               shown[k] = joinHex(SubSeq(rawData, nth(k) + 1, nth(k) + 24))
        /\ ( /\ Len(rawData) = 50
             /\ rawData[1] = 170 /\ rawData[25] = 170 /\ rawData[49] # 170 )
               => n = 2

\* C16 witness: a buffer of 121 bytes with 0xAA at 0, 24, ..., 120 was read:
\* five whole runs start with AA, the last byte is dropped, three are shown.
C16_Witness ==
    /\ rawData = Buffer(121, {0, 24, 48, 72, 96, 120})
    /\ Cardinality(ValidOffsets(rawData)) = 5
    /\ Len(renderRawData(rawData)) = 3

\* The reorderings of a byte sequence that are tried: all of them for up to
\* 3 bytes, the reversal and the rotation by one for longer ones.
Reorderings(s) ==
    IF Len(s) <= 3
    THEN { [i \in 1 .. Len(s) |-> s[p[i]]] : p \in Permutations(1 .. Len(s)) }
    ELSE { [i \in 1 .. Len(s) |-> s[Len(s) + 1 - i]],
           [i \in 1 .. Len(s) |-> s[(i % Len(s)) + 1]] }

\* C17: calculateChecksum of a byte sequence is the arithmetic sum of the
\* bytes modulo 2^16 and the 8-bit calibration sum is it modulo 2^8; both
\* give the same value for every reordering of the bytes; the 16-bit sum of
\* 81 10 05 is 0x96.
C17_ChecksumIsSum ==
    /\ sum16Out # <<>> =>
           /\ sum16Out[1] = reduceSum(bytesIn) % 65536
           /\ \A q \in Reorderings(bytesIn) : calculateChecksum(q) = sum16Out[1]
           /\ bytesIn = <<129, 16, 5>> => sum16Out[1] = 150
    /\ sum8Out # <<>> =>
           /\ sum8Out[1] = reduceSum(bytesIn) % 256
           /\ \A q \in Reorderings(bytesIn) : calibrationCrc(q) = sum8Out[1]

\* C17 witness: both sums were taken of 258 bytes of 0xFF, whose sum 65790
\* passes 16 bits.
C17_Witness ==
    /\ Len(bytesIn) = 258
    /\ reduceSum(bytesIn) = 65790
    /\ sum16Out = <<254>>
    /\ sum8Out = <<254>>

\* The complement of the accumulator after all words of a byte sequence, as
\* bits, by the rule of the claim: start from 0xFFFFFFFF; for each word
\* (4 bytes, the first in the low 8 bits, missing bytes 0) XOR the word in
\* and do 32 times: shift left by one, and XOR 0x04C11DB7 in if the bit
\* shifted out was 1.
CrcWordOf(data) ==
    LET acc == CrcAfterWords(data, (Len(data) + 3) \div 4)
    IN  [i \in 1 .. 32 |-> 1 - acc[i]]

\* C18 as stated: calculateCRC32 returns a value in 0 .. 2^32 - 1, the
\* complement of the accumulator read as an unsigned number; 0 for no bytes.
C18_CrcUnsigned ==
    crc32Out # <<>> =>
        /\ crc32Out[1] >= 0
        /\ \A k \in 0 .. 2 :
               (crc32Out[1] \div (2 ^ (8 * k))) % 256
                   = ByteOfWord(CrcWordOf(bytesIn), k)
        /\ crc32Out[1] \div 16777216 = ByteOfWord(CrcWordOf(bytesIn), 3)
        /\ bytesIn = <<>> => crc32Out[1] = 0

\* C19: no calibration frame is built or sent whose channel byte is outside
\* 1 .. 10.
C19_ChannelInRange ==
    /\ calFrame[5] \in 1 .. 10
    /\ sentCommand # <<>> => sentCommand[5] \in 1 .. 10

\* C20: whenever the status is 'completed', a call of startUpgrade has sent
\* every data frame of its image and then the terminator, all accepted by the
\* transport, and the progress shown is 100.
C20_CompletedMeansDone ==
    upgradeStatus = "completed" =>
        /\ \E r \in Slots :
               LET log == runs[r].log
               IN  /\ runs[r].result = "completed"
                   /\ Len(log) > 0
                   /\ IsTerminator(log[Len(log)])
                   /\ PayloadTotal(log) = runs[r].totalSize
        /\ upgradeProgress = 100

\* C21: an attempt started after an attempt has failed or completed does not
\* resume.  The step that starts it sets the progress shown to 0, and the
\* first data frame it hands to the transport is the frame of sequence
\* number 0 over the bytes of the image from offset 0, with nothing counted
\* as sent.
StartedAfterAttempt(run) == run.startedFrom \in {"error", "completed"}

FirstDataFrame(file) ==
    buildProtocolFrame(DEVICE_ADDR, FUNC_SEND_DATA, 0,
                       slice(file, 0, Min(file.size, MAX_DATA_LEN)))

RestartStep ==
    \A r \in Slots :
        /\ (~InProgress(runs[r]) /\ runs'[r].pc = "read"
                /\ StartedAfterAttempt(runs'[r]))
              => /\ upgradeProgress' = 0
                 /\ runs'[r].sent = 0
                 /\ runs'[r].sequence = 0
                 /\ runs'[r].log = <<>>
        /\ (runs[r].pc = "read" /\ runs'[r].pc = "data"
                /\ StartedAfterAttempt(runs[r]))
              => /\ runs'[r].sent = 0
                 /\ runs'[r].sequence = 0
                 /\ runs'[r].log = <<>>
                 /\ runs'[r].frame = FirstDataFrame(runs[r].file)

C21_RestartFromZero == [][RestartStep]_vars

\* An attempt started from 'error' while a progress above 0 was shown has
\* its first data frame in flight.
C21_Witness ==
    \E r \in Slots :
        /\ runs[r].startedFrom = "error"
        /\ runs[r].startedOver
        /\ runs[r].pc = "data"
        /\ runs[r].log = <<>>
        /\ runs[r].frame = FirstDataFrame(runs[r].file)
        /\ upgradeProgress = 0

\* C22: a call of startUpgrade without a connection or without a selected
\* file, and a call of sendUpgradeCommand without a connection, hand nothing
\* to the transport and leave the status, the progress and the message of the
\* upgrade as they are.
NothingTransmitted == UNCHANGED <<sentCommand, pendingTriggers, triggersSent, runs>>

GuardedCallStep ==
    /\ (startUpgrade /\ (~isConnected \/ firmwareFile = NoFile))
          => /\ NothingTransmitted
             /\ UNCHANGED <<upgradeStatus, upgradeProgress, upgradeMessage>>
    /\ (sendUpgradeCommand /\ ~isConnected)
          => /\ NothingTransmitted
             /\ UNCHANGED upgradeStatus

C22_GuardsLeaveState == [][GuardedCallStep]_vars

\* startUpgrade has returned at its second guard: called with a connection
\* and no file, outside 'idle' and with a progress above 0 shown.
C22_Witness ==
    /\ errorToast = "firmwareUpgrade.noFileSelected"
    /\ isConnected
    /\ firmwareFile = NoFile
    /\ upgradeStatus = "error"
    /\ upgradeProgress > 0

\* C23: within a run of consecutive failed reads, with no successful read
\* and no connection change in between, the error message is shown for at
\* most 5 of the failures; a successful read and a connection change set the
\* failure count to 0.
C23_ErrorShownAtMostFive == refreshErrorsShown <= 5

\* A connection change and a read that brings new data set the failure
\* count to 0.
CountResetStep ==
    /\ isConnected' # isConnected => refreshErrorCount' = 0
    /\ rawData' # rawData => refreshErrorCount' = 0

C23_CountReset == [][CountResetStep]_vars

\* The data of a frame: what lies between the four header bytes and the two
\* checksum bytes.
PayloadOf(frame) == SubSeq(frame, 5, Len(frame) - 2)

\* C24: the payloads of the data frames of a transfer, in the order they are
\* handed to the transport, are the image cut into consecutive pieces.  Each
\* data frame in flight carries the bytes of the image that start at the
\* offset the frames accepted before it add up to, and a completed transfer
\* has carried as many bytes as the image has: no byte is lost, sent twice
\* or out of place.
C24_PayloadsAreImage ==
    \A r \in Slots :
        LET run == runs[r]
            offset == PayloadTotal(DataEntries(run.log))
            payload == PayloadOf(run.frame)
        IN  /\ run.pc = "data" =>
                   /\ Len(payload) > 0
                   /\ offset + Len(payload) <= run.file.size
                   /\ \A k \in 1 .. Len(payload) :
                          payload[k] = FileByte(run.file, offset + k - 1)
            /\ run.result = "completed" => offset = run.file.size

\* The image of 131073 bytes, 256 chunks and one byte, went through: its 257
\* data frames carried 131073 bytes.
C24_Witness ==
    \E r \in Slots :
        /\ runs[r].result = "completed"
        /\ runs[r].file.size = 131073
        /\ Len(DataEntries(runs[r].log)) = 257
        /\ PayloadTotal(DataEntries(runs[r].log)) = 131073

\* C25: once the status has left 'idle' it does not return to it, and the
\* trigger command F5 5F 01 AB BF is handed to the transport at most once.
C25_TriggerAtMostOnce == triggersSent <= 1

\* The first half of C25 on its own: no step takes the status back to
\* 'idle'.
NeverBackToIdleStep == upgradeStatus # "idle" => upgradeStatus' # "idle"

C25_NeverBackToIdle == [][NeverBackToIdleStep]_vars

===========================================================================
